---- MODULE Spec2Model ----
(***************************************************************************)
(* Model of the certificate object codec (src/src/certificate.rs) and of  *)
(* the hardware-backed signing key (src/src/yubikey_signer.rs).           *)
(*                                                                         *)
(* Bytes are the integers 0..255, byte strings are sequences of bytes.    *)
(* A call's outcome is a record: kind "Ok" with a value, kind "Err" with  *)
(* an error name, or kind "Panic" (the Rust thread unwinds: an abort of   *)
(* the call, not a value handed to the caller).                           *)
(***************************************************************************)
EXTENDS Integers, Sequences, FiniteSets, TLC

VARIABLES
    objects,    \* card storage: slot -> [present, data]
    saved,      \* the save_object call made by the last operation, if any
    last,       \* the last codec operation and its outcome
    lastWrite,  \* per slot: the most recent write or delete that reached save_object
    spki,       \* YubiKeySigningKey.spki: the public-key descriptor of the signer
    dlen,       \* output length in bytes of the signer's digest D
    holder,     \* YubiKeySigningKey.inner: the thread holding the Mutex, or NoThread
    poisoned,   \* YubiKeySigningKey.inner: the Mutex is poisoned
    borrowed,   \* YubiKeySigningKey.inner: the RefCell is mutably borrowed
    pc,         \* per thread: where it is in try_sign / write_cert
    th,         \* per thread: the locals and the outcome of its current call
    resolved,   \* outcome of the algorithm resolver applied to spki
    clock,      \* SystemTime: the wall clock that generate_self_signed reads
    gen         \* generate_self_signed: its inputs, locals and outcome

codecVars == <<objects, saved, last, lastWrite>>
signerVars == <<spki, dlen, holder, poisoned, borrowed, pc, th>>
issuerVars == <<clock, gen>>
vars == <<objects, saved, last, lastWrite,
          spki, dlen, holder, poisoned, borrowed, pc, th, resolved, clock, gen>>

(***************************************************************************)
(* Bounds of the model.                                                    *)
(***************************************************************************)
\* Capacity of one card object.  The crate's consts::CB_OBJ_MAX is not among
\* the sources; the model takes a capacity large enough that all three BER
\* length forms (short, 0x81, 0x82) occur below it.
CB_OBJ_MAX == 270

\* The key slots of the model (piv::SlotId); each has one certificate object.
Slots == {"Authentication", "Signature"}

(***************************************************************************)
(* Outcomes.                                                               *)
(***************************************************************************)
Ok(v) == [kind |-> "Ok", val |-> v, err |-> ""]
Err(e) == [kind |-> "Err", val |-> <<>>, err |-> e]
Panic == [kind |-> "Panic", val |-> <<>>, err |-> ""]

Some(v) == [some |-> TRUE, val |-> v]
None == [some |-> FALSE, val |-> <<>>]

(***************************************************************************)
(* certificate.rs: tags and CertInfo.                                      *)
(***************************************************************************)
TAG_CERT == 112
TAG_CERT_COMPRESS == 113
TAG_CERT_LRC == 254

CertInfo == {"Uncompressed", "Gzip"}

\* impl From<CertInfo> for u8
CertInfo_into_u8(certinfo) == IF certinfo = "Uncompressed" THEN 0 ELSE 1

(***************************************************************************)
(* TLV codec (crate::serialization, described in the specification 4.1).   *)
(***************************************************************************)
\* The BER length field of a value of n bytes.
set_length(n) ==
    IF n < 128 THEN <<n>>
    ELSE IF n < 256 THEN <<129, n>>
    ELSE <<130, n \div 256, n % 256>>

\* Reads a BER length field at the head of b: [ok, len, used].
get_length(b) ==
    IF Len(b) >= 1 /\ b[1] < 128 THEN [ok |-> TRUE, len |-> b[1], used |-> 1]
    ELSE IF Len(b) >= 2 /\ b[1] = 129 THEN [ok |-> TRUE, len |-> b[2], used |-> 2]
    ELSE IF Len(b) >= 3 /\ b[1] = 130
        THEN [ok |-> TRUE, len |-> b[2] * 256 + b[3], used |-> 3]
    ELSE [ok |-> FALSE, len |-> 0, used |-> 0]

\* Tlv::write into a buffer with cap bytes left: the bytes written, or
\* BufferTooSmall when tag, length field and value do not fit.
Tlv_write(cap, tag, value) ==
    LET rec == <<tag>> \o set_length(Len(value)) \o value
    IN  IF Len(rec) > cap THEN Err("BufferTooSmall") ELSE Ok(rec)

\* Tlv::parse_single: the value of the one record at the head of buf.
Tlv_parse_single(buf, tag) ==
    IF Len(buf) < 2 THEN Err("InvalidObject")
    ELSE LET l == get_length(SubSeq(buf, 2, Len(buf)))
         IN  IF ~l.ok \/ 1 + l.used + l.len > Len(buf) THEN Err("InvalidObject")
             ELSE IF buf[1] # tag THEN Err("InvalidObject")
             ELSE Ok(SubSeq(buf, 2 + l.used, 1 + l.used + l.len))

(***************************************************************************)
(* Object storage behind a transaction (crate::transaction, specification  *)
(* section 6).                                                             *)
(***************************************************************************)
Absent == [present |-> FALSE, data |-> <<>>]
Stored(b) == [present |-> TRUE, data |-> b]

\* Transaction::fetch_object: the possible outcomes.  It fails when the
\* object is absent.  For an object of length zero the card either reports
\* it as not found or returns zero data bytes.
fetch_object(objs, slot) ==
    IF ~objs[slot].present THEN {Err("NotFound")}
    ELSE IF objs[slot].data = <<>> THEN {Err("NotFound"), Ok(<<>>)}
    ELSE {Ok(objs[slot].data)}

NoSave == [called |-> FALSE, slot |-> "", data |-> <<>>]

\* Transaction::save_object: [res, objs, call].
save_object(objs, slot, bytes) ==
    IF Len(bytes) > CB_OBJ_MAX
    THEN [res |-> Err("SizeError"), objs |-> objs,
          call |-> [called |-> TRUE, slot |-> slot, data |-> bytes]]
    ELSE [res |-> Ok(<<>>), objs |-> [objs EXCEPT ![slot] = Stored(bytes)],
          call |-> [called |-> TRUE, slot |-> slot, data |-> bytes]]

(***************************************************************************)
(* certificate.rs: read_certificate, write_certificate, read, write,       *)
(* delete.                                                                 *)
(***************************************************************************)
\* Mutant of read_certificate: hands back the stored object as it is, without
\* unwrapping the certificate record.
read_certificate_raw(f) ==
    IF f.kind = "Err" THEN Ok(<<>>)
    ELSE IF Len(f.val) = 0 THEN Panic
    ELSE Ok(f.val)

\* Mutant of read_certificate: a record that does not parse is reported as an
\* error instead of as an empty result.
read_certificate_strict(f) ==
    IF f.kind = "Err" THEN Ok(<<>>)
    ELSE IF Len(f.val) = 0 THEN Panic
    ELSE IF f.val[1] = TAG_CERT THEN Tlv_parse_single(f.val, TAG_CERT)
    ELSE Ok(f.val)

\* read_certificate, given the outcome f of txn.fetch_object.
read_certificate(f) ==
    IF f.kind = "Err" THEN Ok(<<>>)
    ELSE IF Len(f.val) = 0 THEN Panic      \* buf[0] on an empty buffer
    ELSE IF f.val[1] = TAG_CERT
        THEN LET p == Tlv_parse_single(f.val, TAG_CERT)
             IN  IF p.kind = "Ok" THEN p ELSE Ok(<<>>)
    ELSE Ok(f.val)

\* certificate::read, given the outcome f of txn.fetch_object.
read(f) ==
    LET buf == read_certificate(f)
    IN  IF buf.kind # "Ok" THEN buf
        ELSE IF buf.val = <<>> THEN Err("InvalidObject")
        ELSE buf

\* Mutant of write_certificate: saves what has been encoded so far when the
\* trailer does not fit, and then reports the error.
write_certificate_partial(objs, slot, data, certinfo) ==
    IF ~data.some THEN save_object(objs, slot, <<>>)
    ELSE
      LET fail(e) == [res |-> e, objs |-> objs, call |-> NoSave]
          w1 == Tlv_write(CB_OBJ_MAX, TAG_CERT, data.val)
      IN  IF w1.kind # "Ok" THEN fail(w1)
          ELSE
            LET off1 == Len(w1.val)
                w2 == Tlv_write(CB_OBJ_MAX - off1, TAG_CERT_COMPRESS,
                                <<CertInfo_into_u8(certinfo)>>)
            IN  IF w2.kind # "Ok" THEN fail(w2)
                ELSE
                  LET off2 == off1 + Len(w2.val)
                      w3 == Tlv_write(CB_OBJ_MAX - off2, TAG_CERT_LRC, <<>>)
                  IN  IF w3.kind # "Ok"
                      THEN [save_object(objs, slot, w1.val \o w2.val)
                                EXCEPT !.res = w3]
                      ELSE save_object(objs, slot, w1.val \o w2.val \o w3.val)

\* Mutant of write_certificate: the trailer record is left out.
write_certificate_notrailer(objs, slot, data, certinfo) ==
    IF ~data.some THEN save_object(objs, slot, <<>>)
    ELSE
      LET fail(e) == [res |-> e, objs |-> objs, call |-> NoSave]
          w1 == Tlv_write(CB_OBJ_MAX, TAG_CERT, data.val)
      IN  IF w1.kind # "Ok" THEN fail(w1)
          ELSE
            LET w2 == Tlv_write(CB_OBJ_MAX - Len(w1.val), TAG_CERT_COMPRESS,
                                <<CertInfo_into_u8(certinfo)>>)
            IN  IF w2.kind # "Ok" THEN fail(w2)
                ELSE save_object(objs, slot, w1.val \o w2.val)

\* write_certificate: [res, objs, call].
write_certificate(objs, slot, data, certinfo) ==
    IF ~data.some THEN save_object(objs, slot, <<>>)
    ELSE
      LET fail(e) == [res |-> e, objs |-> objs, call |-> NoSave]
          w1 == Tlv_write(CB_OBJ_MAX, TAG_CERT, data.val)
      IN  IF w1.kind # "Ok" THEN fail(w1)
          ELSE
            LET off1 == Len(w1.val)
                w2 == Tlv_write(CB_OBJ_MAX - off1, TAG_CERT_COMPRESS,
                                <<CertInfo_into_u8(certinfo)>>)
            IN  IF w2.kind # "Ok" THEN fail(w2)
                ELSE
                  LET off2 == off1 + Len(w2.val)
                      w3 == Tlv_write(CB_OBJ_MAX - off2, TAG_CERT_LRC, <<>>)
                  IN  IF w3.kind # "Ok" THEN fail(w3)
                      ELSE save_object(objs, slot, w1.val \o w2.val \o w3.val)

\* certificate::write
write(objs, slot, certinfo, cert) ==
    write_certificate(objs, slot, Some(cert), certinfo)

\* certificate::delete
delete(objs, slot) ==
    write_certificate(objs, slot, None, "Uncompressed")

(***************************************************************************)
(* yubikey_signer.rs: the algorithm resolver.                              *)
(*                                                                         *)
(* A public-key descriptor (SubjectPublicKeyInfoOwned) is a record         *)
(*   oid    the algorithm OID,                                             *)
(*   params the algorithm parameters: "absent", "NULL" or a curve OID,     *)
(*   key    what the subject public key bytes hold: [rsa, modLen], rsa     *)
(*          telling whether they decode as an RSAPublicKey and modLen the  *)
(*          modulus length in bytes if they do.                            *)
(***************************************************************************)
RSA_ENCRYPTION == "rsaEncryption"
ID_EC_PUBLIC_KEY == "id-ecPublicKey"
SECP_256_R_1 == "secp256r1"
SECP_384_R_1 == "secp384r1"
ECDSA_WITH_SHA_256 == "ecdsa-with-SHA256"
SHA_256_WITH_RSA_ENCRYPTION == "sha256WithRSAEncryption"

AlgOk(a) == [kind |-> "Ok", alg |-> a]
AlgPanic == [kind |-> "Panic", alg |-> ""]

get_sig_alg_from_spki(k) ==
    IF ID_EC_PUBLIC_KEY = k.oid THEN ECDSA_WITH_SHA_256
    ELSE SHA_256_WITH_RSA_ENCRYPTION

\* [kind, len]
get_em_len(k) ==
    IF ~k.key.rsa THEN [kind |-> "Err", len |-> 0]      \* AlgorithmError
    ELSE [kind |-> "Ok", len |-> k.key.modLen]

\* [kind, oid]: the parameters' value read as an object identifier.
get_named_curve_parameter(k) ==
    IF k.params \in {"absent", "NULL"} THEN [kind |-> "Err", oid |-> ""]  \* GenericError
    ELSE [kind |-> "Ok", oid |-> k.params]

\* Mutant of get_alg_id: any modulus that is not 128 bytes long counts as
\* RSA-2048, any curve that is not secp256r1 as P-384.
get_alg_id_default(k) ==
    IF RSA_ENCRYPTION = k.oid THEN
        LET em_len == get_em_len(k)
        IN  IF em_len.kind # "Ok" THEN AlgPanic
            ELSE IF em_len.len = 128 THEN AlgOk("Rsa1024")
            ELSE AlgOk("Rsa2048")
    ELSE IF ID_EC_PUBLIC_KEY = k.oid THEN
        LET named_curve == get_named_curve_parameter(k)
        IN  IF named_curve.kind # "Ok" THEN AlgPanic
            ELSE IF named_curve.oid = SECP_256_R_1 THEN AlgOk("EccP256")
            ELSE AlgOk("EccP384")
    ELSE AlgPanic

\* get_alg_id: an AlgorithmId, or the panic of unwrap() / panic!().
get_alg_id(k) ==
    IF RSA_ENCRYPTION = k.oid THEN
        LET em_len == get_em_len(k)
        IN  IF em_len.kind # "Ok" THEN AlgPanic
            ELSE IF em_len.len = 128 THEN AlgOk("Rsa1024")
            ELSE IF em_len.len = 256 THEN AlgOk("Rsa2048")
            ELSE AlgPanic
    ELSE IF ID_EC_PUBLIC_KEY = k.oid THEN
        LET named_curve == get_named_curve_parameter(k)
        IN  IF named_curve.kind # "Ok" THEN AlgPanic
            ELSE IF named_curve.oid = SECP_256_R_1 THEN AlgOk("EccP256")
            ELSE IF named_curve.oid = SECP_384_R_1 THEN AlgOk("EccP384")
            ELSE AlgPanic
    ELSE AlgPanic

\* DynSignatureAlgorithmIdentifier::signature_algorithm_identifier: always
\* Ok, with this OID (and NULL parameters).
signature_algorithm_identifier(k) == get_sig_alg_from_spki(k)

(***************************************************************************)
(* yubikey_signer.rs: try_sign up to the point where it takes the lock.    *)
(***************************************************************************)
\* D::digest(msg): dl bytes that depend on the message.
Digest(msg, dl) == [i \in 1..dl |-> (msg * 31 + i * 7) % 256]

\* DER length octets.
der_length(n) ==
    IF n < 128 THEN <<n>>
    ELSE IF n < 256 THEN <<129, n>>
    ELSE <<130, n \div 256, n % 256>>

\* DER of AlgorithmIdentifier { id-sha256, NULL }.
DER_ALG_ID_SHA_256 == <<48, 13, 6, 9, 96, 134, 72, 1, 101, 3, 4, 2, 1, 5, 0>>

\* ysd.to_der(): DigestInfo ::= SEQUENCE { digestAlgorithm, digest OCTET STRING }
DigestInfo_to_der(d) ==
    LET octets == <<4>> \o der_length(Len(d)) \o d
        body == DER_ALG_ID_SHA_256 \o octets
    IN  <<48>> \o der_length(Len(body)) \o body

Fill(n, b) == [i \in 1..n |-> b]

\* The encoded message em of try_sign.  em_len - tlen - 3 is computed in
\* usize: where it would be negative a debug build panics on the overflow
\* and a release build wraps to a length vec! cannot allocate, which panics
\* as well.
pkcs1_em(em_len, t) ==
    IF em_len - Len(t) - 3 < 0 THEN Panic
    ELSE Ok(<<0, 1>> \o Fill(em_len - Len(t) - 3, 255) \o <<0>> \o t)

Prep(kind, path, pre, alg) == [kind |-> kind, path |-> path, pre |-> pre, alg |-> alg]

\* try_sign before self.inner.lock(): kind "Lock" with the preimage and the
\* algorithm it will hand to sign_data, kind "Err" (it returns
\* signature::Error) or kind "Panic".
try_sign_prepare(k, msg, dl) ==
    LET oid == get_sig_alg_from_spki(k)
        d == Digest(msg, dl)
    IN  IF SHA_256_WITH_RSA_ENCRYPTION = oid THEN
            LET em_len == get_em_len(k)
            IN  IF em_len.kind # "Ok" THEN Prep("Err", "rsa", <<>>, "")
                ELSE
                  LET alg == get_alg_id(k)
                  IN  IF alg.kind # "Ok" THEN Prep("Panic", "rsa", <<>>, "")
                      ELSE
                        LET em == pkcs1_em(em_len.len, DigestInfo_to_der(d))
                        IN  IF em.kind # "Ok" THEN Prep("Panic", "rsa", <<>>, alg.alg)
                            ELSE Prep("Lock", "rsa", em.val, alg.alg)
        ELSE
            LET alg == get_alg_id(k)
            IN  IF alg.kind # "Ok" THEN Prep("Panic", "ec", <<>>, "")
                ELSE Prep("Lock", "ec", d, alg.alg)

(***************************************************************************)
(* yubikey_signer.rs: the lock around the hardware handle.                 *)
(***************************************************************************)
NoThread == 0

\* self.inner.lock() returns only when no thread holds the Mutex.
lock_acquirable(h) == h = NoThread

\* Mutant of guard_owner: the guard is dropped as soon as lock() has returned
\* it (as with a guard that is not bound to a variable).
guard_owner_dropped(t) == NoThread

\* The holder of the Mutex once lock() has returned Ok(g) to thread t:
\* yubikey_guard lives until the call returns or unwinds.
guard_owner(t) == t

(***************************************************************************)
(* Inputs of the codec operations.                                         *)
(***************************************************************************)
\* A certificate of n bytes whose i-th byte is (seed + i) mod 256.
Cert(n, seed) == [i \in 1..n |-> (seed + i) % 256]

\* Lengths around every change of the length field's form and around the
\* capacity: CB_OBJ_MAX - 9 is the longest that fits; with - 8 the trailer,
\* with - 6 the compression record, with - 3 the certificate record is the
\* first that does not fit.
CertLens == {0, 1, 127, 128, 255, 256,
             CB_OBJ_MAX - 9, CB_OBJ_MAX - 8, CB_OBJ_MAX - 6, CB_OBJ_MAX - 3}

\* seed 111 makes the certificate itself begin with the byte 0x70
CertInputs == {Cert(n, 111) : n \in CertLens}

\* The (certinfo, certificate) pairs written: every length uncompressed, and
\* the shortest and the longest storable certificate marked as gzip.
WriteInputs ==
    {<<"Uncompressed", c>> : c \in CertInputs}
    \cup {<<"Gzip", Cert(n, 111)>> : n \in {1, CB_OBJ_MAX - 9}}

\* What a slot may hold before this code ever wrote to it: nothing, a legacy
\* object without the TLV wrapping, and damaged TLV objects.
ForeignObjects ==
    { <<48, 3, 2, 1, 5>>,        \* not tagged 0x70
      <<112, 5, 1>>,             \* tagged, value shorter than its length field
      <<112>>,                   \* tagged, no length field
      <<112, 131, 0, 0, 1, 9>> } \* tagged, length form 0x83

NoOp == [op |-> "none", slot |-> "", certinfo |-> "Uncompressed", cert |-> <<>>,
         fetch |-> Err(""), res |-> Ok(<<>>), pub |-> Ok(<<>>)]

(***************************************************************************)
(* Inputs of the signing key.                                              *)
(***************************************************************************)
NThreads == 2
Threads == 1..NThreads

Key(oid, params, rsa, modLen) ==
    [oid |-> oid, params |-> params, key |-> [rsa |-> rsa, modLen |-> modLen]]

\* Every descriptor the resolver is applied to: RSA, EC, RSASSA-PSS and
\* Ed25519 algorithm OIDs, each with every form of parameters and with key
\* bytes that hold an RSA modulus of some length or no RSAPublicKey at all.
KeyOids == {RSA_ENCRYPTION, ID_EC_PUBLIC_KEY, "id-RSASSA-PSS", "id-Ed25519"}
KeyParams == {"absent", "NULL", SECP_256_R_1, SECP_384_R_1, "secp521r1"}
ModLens == {32, 64, 127, 128, 129, 255, 256, 257, 512}
AllKeys ==
    {Key(o, p, TRUE, m) : o \in KeyOids, p \in KeyParams, m \in ModLens}
    \cup {Key(o, p, FALSE, 0) : o \in KeyOids, p \in KeyParams}

\* The descriptors a signing key is constructed with in the model.
SignerKeys ==
    { Key(RSA_ENCRYPTION, "NULL", TRUE, 128),
      Key(RSA_ENCRYPTION, "NULL", TRUE, 256),
      Key(RSA_ENCRYPTION, "NULL", TRUE, 32),
      Key(RSA_ENCRYPTION, "NULL", FALSE, 0),
      Key(ID_EC_PUBLIC_KEY, SECP_256_R_1, FALSE, 0),
      Key(ID_EC_PUBLIC_KEY, SECP_384_R_1, FALSE, 0),
      Key(ID_EC_PUBLIC_KEY, "secp521r1", FALSE, 0),
      Key(ID_EC_PUBLIC_KEY, "absent", FALSE, 0),
      Key("id-RSASSA-PSS", "absent", TRUE, 256),
      Key("id-Ed25519", "absent", FALSE, 0) }

\* Output lengths of the digest D: SHA-256, SHA-512, and a digest so long
\* that its DigestInfo does not fit a 128-byte modulus.
DigestLens == {32, 64, 110}

\* What sign_data may return: a signature or a hardware error.
HwOutcomes == {Ok(<<17, 34>>), Err("HardwareError")}
NoHw == Err("")

\* The certificates write_cert is called with: one that fits, one that does not.
SignerCerts == {Cert(3, 47), Cert(CB_OBJ_MAX - 3, 111)}

\* The slot of the signing key.
SignerSlot == "Signature"

Local == [op |-> "none", path |-> "", cert |-> <<>>, pre |-> <<>>, alg |-> "",
          nsign |-> 0, handed |-> <<>>, hw |-> NoHw, oid |-> "", res |-> Ok(<<>>)]

NotResolved == [done |-> FALSE, alg |-> AlgPanic, sig |-> ""]

(***************************************************************************)
(* generate_self_signed: time, names, serial numbers and the certificate.   *)
(*                                                                         *)
(* An instant of SystemTime is a number of whole seconds and a number of   *)
(* half seconds (0 or 1).  Seconds are counted from 2026-01-01T00:00:00Z,  *)
(* which is UNIX_EPOCH + 1,767,225,600 s, so that every instant up to the  *)
(* end of the UTCTime range is a machine integer of the model checker.     *)
(***************************************************************************)
Instant(s, h) == [secs |-> s, half |-> h]

\* Duration::from_secs(365 * 24 * 60 * 60 * 10): line 133.
ten_years_duration_leap == (365 * 10 + 2) * 24 * 60 * 60
ten_years_duration == 365 * 24 * 60 * 60 * 10

\* SystemTime::checked_add of a whole number of seconds: line 134.
checked_add(t, d) == [t EXCEPT !.secs = @ + d]

\* The last second a UTCTime can hold, 2049-12-31T23:59:59Z.
UTC_TIME_MAX == 757382399

\* A value of x509_cert::time::Time.
Time(kind, secs) == [kind |-> kind, secs |-> secs]
TimeOk(t) == [kind |-> "Ok", time |-> t]
TimeErr == [kind |-> "Err", time |-> Time("", 0)]

\* UtcTime::from_unix_duration: the fraction of a second is dropped, and an
\* instant after 2049 is refused.  Lines 136-140 and 144-147.
UtcTime_from_unix_duration(t) ==
    IF t.secs >= 0 /\ t.secs <= UTC_TIME_MAX
    THEN TimeOk(Time("UtcTime", t.secs))
    ELSE TimeErr

\* The Validity of the certificate from the two readings of the clock: now1
\* is read at line 134, now2 at line 145.  Each unwrap() of a refused
\* conversion panics.
NoValidity == [not_before |-> Time("", 0), not_after |-> Time("", 0)]
make_validity(opt_not_after, now1, now2) ==
    LET ten_years_time == checked_add(now1, ten_years_duration)
        na == IF opt_not_after.some THEN TimeOk(opt_not_after.val)
              ELSE UtcTime_from_unix_duration(ten_years_time)
        nb == UtcTime_from_unix_duration(now2)
    IN  IF na.kind = "Err" \/ nb.kind = "Err"
        THEN [kind |-> "Panic", validity |-> NoValidity]
        ELSE [kind |-> "Ok",
              validity |-> [not_before |-> nb.time, not_after |-> na.time]]

\* SerialNumber::new refuses more than 20 bytes: line 132.
SERIAL_MAX_LEN == 20
SerialNumber_new(serial) == Len(serial) >= 1 /\ Len(serial) <= SERIAL_MAX_LEN

\* Name::from_str on a subject given as its tokens: one attribute type, "=",
\* one value.  Line 151.
AttributeTypes == {"cn", "o", "ou", "c"}
Name_from_str(subject) ==
    /\ Len(subject) = 3
    /\ subject[1] \in AttributeTypes
    /\ subject[2] = "="

\* A certificate; before builder.build() has signed it, `signed` is FALSE.
NoCert == [signed |-> FALSE, serial |-> <<>>, validity |-> NoValidity,
           issuer |-> <<>>, subject |-> <<>>, spki |-> Key("", "", FALSE, 0),
           sigalg |-> "", signature |-> <<>>]

\* generate_self_signed from its entry to CertificateBuilder::new: lines
\* 131-158.  The builder of Profile::Root names the subject as the issuer and
\* asks the signer for its signature algorithm identifier.
gen_prepare(k, serial, opt_not_after, subject, now1, now2) ==
    LET v == make_validity(opt_not_after, now1, now2)
    IN  IF ~SerialNumber_new(serial) \/ v.kind = "Panic" \/ ~Name_from_str(subject)
        THEN [kind |-> "Panic", tbs |-> NoCert]
        ELSE [kind |-> "Build",
              tbs |-> [NoCert EXCEPT !.serial = serial, !.validity = v.validity,
                                     !.issuer = subject, !.subject = subject,
                                     !.spki = k,
                                     !.sigalg = signature_algorithm_identifier(k)]]

\* builder.build() hands the certificate to try_sign and the match on its
\* result: lines 160-163.
gen_result(tbs, signed) ==
    IF signed.kind = "Ok"
    THEN [res |-> Ok(<<>>), cert |-> [tbs EXCEPT !.signed = TRUE, !.signature = signed.val]]
    ELSE IF signed.kind = "Err"
    THEN [res |-> Err("InvalidObject"), cert |-> NoCert]
    ELSE [res |-> Panic, cert |-> NoCert]

\* The inputs of generate_self_signed.
IssuerThread == 1
Serials == {<<1, 7, 9>>, [i \in 1..(SERIAL_MAX_LEN + 1) |-> i]}
Subjects == {<<"cn", "=", "testSubject">>, <<"testSubject">>}
Clocks ==
    {Instant(s, h) : s \in {26524800, UTC_TIME_MAX - ten_years_duration,
                            UTC_TIME_MAX - ten_years_duration + 1,
                            UTC_TIME_MAX - 1}, h \in {0, 1}}
\* The clock between the two readings: it stands still, advances by half a
\* second or by a second and a half, or is set back by a second.
Advance(t) ==
    {t, Instant(t.secs + ((t.half + 1) \div 2), (t.half + 1) % 2),
     Instant(t.secs + 1 + ((t.half + 1) \div 2), (t.half + 1) % 2),
     Instant(t.secs - 1, t.half)}
NotAfters(now) ==
    {None, Some(Time("UtcTime", now.secs + 86400)),
     Some(Time("GeneralizedTime", UTC_TIME_MAX + 86400)),
     Some(Time("UtcTime", now.secs - 86400))}

NoGen == [pc |-> "idle", serial |-> <<>>, opt_not_after |-> None, subject |-> <<>>,
          now1 |-> Instant(0, 0), now2 |-> Instant(0, 0), tbs |-> NoCert,
          res |-> Ok(<<>>), cert |-> NoCert]

InitIssuerVars ==
    /\ clock = Instant(26524800, 0)
    /\ gen = NoGen

InitCodecVars ==
    /\ saved = NoSave
    /\ last = NoOp
    /\ lastWrite = [s \in Slots |-> NoOp]

InitSignerVars ==
    /\ holder = NoThread
    /\ poisoned = FALSE
    /\ borrowed = FALSE
    /\ pc = [t \in Threads |-> "idle"]
    /\ th = [t \in Threads |-> Local]
    /\ resolved = NotResolved

\* The codec alone: the card holds anything, no signing key is in use.
Init ==
    /\ objects \in [Slots -> {Absent} \cup {Stored(b) : b \in ForeignObjects}]
    /\ InitCodecVars
    /\ spki = Key(RSA_ENCRYPTION, "NULL", TRUE, 256)
    /\ dlen = 32
    /\ InitSignerVars
    /\ InitIssuerVars

\* YubiKeySigningKey::new on a card without certificates.
InitSigner ==
    /\ objects = [s \in Slots |-> Absent]
    /\ InitCodecVars
    /\ spki \in SignerKeys
    /\ dlen \in DigestLens
    /\ InitSignerVars
    /\ InitIssuerVars

\* The resolver applied to any descriptor.
InitResolver ==
    /\ objects = [s \in Slots |-> Absent]
    /\ InitCodecVars
    /\ spki \in AllKeys
    /\ dlen = 32
    /\ InitSignerVars
    /\ InitIssuerVars

\* A signing key handed to generate_self_signed on a card without
\* certificates; a panic of an earlier user of the key may have poisoned it.
InitIssuer ==
    /\ objects = [s \in Slots |-> Absent]
    /\ InitCodecVars
    /\ spki \in SignerKeys
    /\ dlen \in {32, 64}
    /\ holder = NoThread
    /\ poisoned \in BOOLEAN
    /\ borrowed = FALSE
    /\ pc = [t \in Threads |-> "idle"]
    /\ th = [t \in Threads |-> Local]
    /\ resolved = NotResolved
    /\ clock \in Clocks
    /\ gen = NoGen

(***************************************************************************)
(* The codec operations.                                                   *)
(***************************************************************************)
Write(s, certinfo, cert) ==
    LET w == write(objects, s, certinfo, cert)
        rec == [NoOp EXCEPT !.op = "write", !.slot = s, !.certinfo = certinfo,
                            !.cert = cert, !.res = w.res, !.pub = w.res]
    IN  /\ objects' = w.objs
        /\ saved' = w.call
        /\ last' = rec
        /\ lastWrite' = IF w.call.called THEN [lastWrite EXCEPT ![s] = rec]
                        ELSE lastWrite
        /\ UNCHANGED <<signerVars, resolved, issuerVars>>

Delete(s) ==
    LET w == delete(objects, s)
        rec == [NoOp EXCEPT !.op = "delete", !.slot = s, !.res = w.res, !.pub = w.res]
    IN  /\ objects' = w.objs
        /\ saved' = w.call
        /\ last' = rec
        /\ lastWrite' = [lastWrite EXCEPT ![s] = rec]
        /\ UNCHANGED <<signerVars, resolved, issuerVars>>

Read(s) ==
    \E f \in fetch_object(objects, s) :
        /\ last' = [NoOp EXCEPT !.op = "read", !.slot = s, !.fetch = f,
                                !.res = read_certificate(f), !.pub = read(f)]
        /\ saved' = NoSave
        /\ UNCHANGED <<objects, lastWrite, signerVars, resolved, issuerVars>>

DoWrite == \E s \in Slots, w \in WriteInputs : Write(s, w[1], w[2])
DoDelete == \E s \in Slots : Delete(s)
DoRead == \E s \in Slots : Read(s)

NextCodec == DoWrite \/ DoDelete \/ DoRead

SpecCodec == Init /\ [][NextCodec]_vars

(***************************************************************************)
(* The operations of YubiKeySigningKey, called from several threads.       *)
(***************************************************************************)
CanCall(t) == pc[t] \in {"idle", "ret"}

Return(t, res) ==
    /\ pc' = [pc EXCEPT ![t] = "ret"]
    /\ th' = [th EXCEPT ![t].res = res]

\* try_sign from its entry to self.inner.lock(): lines 178-205 (RSA) and
\* line 222 (EC).  The message signed by thread t is the number t.
TrySignBegin(t) ==
    /\ CanCall(t)
    /\ LET p == try_sign_prepare(spki, t, dlen)
           loc == [Local EXCEPT !.op = "try_sign", !.path = p.path,
                                !.pre = p.pre, !.alg = p.alg]
       IN  /\ th' = [th EXCEPT ![t] =
                        IF p.kind = "Err" THEN [loc EXCEPT !.res = Err("signature::Error")]
                        ELSE IF p.kind = "Panic" THEN [loc EXCEPT !.res = Panic]
                        ELSE loc]
           /\ pc' = [pc EXCEPT ![t] =
                        IF p.kind = "Err" THEN "ret"
                        ELSE IF p.kind = "Panic" THEN "dead"
                        ELSE "ts_lock"]
    /\ UNCHANGED <<codecVars, spki, dlen, holder, poisoned, borrowed, resolved>>

\* self.inner.lock() and borrow_mut() in try_sign: lines 206-211, 223-228.
\* A poisoned Mutex makes lock() return Err; the guard inside the error is
\* dropped at once.
TrySignLock(t) ==
    /\ pc[t] = "ts_lock"
    /\ lock_acquirable(holder)
    /\ IF poisoned
       THEN /\ Return(t, Err("signature::Error"))
            /\ UNCHANGED <<holder, borrowed>>
       ELSE IF borrowed
       THEN \* borrow_mut() panics; the guard is dropped while panicking
            /\ pc' = [pc EXCEPT ![t] = "dead"]
            /\ th' = [th EXCEPT ![t].res = Panic]
            /\ UNCHANGED <<holder, borrowed>>
       ELSE /\ holder' = guard_owner(t)
            /\ borrowed' = TRUE
            /\ pc' = [pc EXCEPT ![t] = "ts_sign"]
            /\ UNCHANGED th
    /\ poisoned' = (poisoned \/ borrowed)
    /\ UNCHANGED <<codecVars, spki, dlen, resolved>>

\* sign_data and what try_sign does with its result: lines 213-220 (RSA: an
\* error panics, and the guard dropped by the unwinding poisons the Mutex)
\* and 229-233 (EC: an error is returned as signature::Error).
TrySignData(t) ==
    /\ pc[t] = "ts_sign"
    /\ \E hw \in HwOutcomes :
        LET loc == [th[t] EXCEPT !.nsign = @ + 1, !.handed = th[t].pre, !.hw = hw]
        IN  IF hw.kind = "Ok"
            THEN /\ th' = [th EXCEPT ![t] = [loc EXCEPT !.res = Ok(hw.val)]]
                 /\ pc' = [pc EXCEPT ![t] = "ret"]
                 /\ UNCHANGED poisoned
            ELSE IF th[t].path = "rsa"
            THEN /\ th' = [th EXCEPT ![t] = [loc EXCEPT !.res = Panic]]
                 /\ pc' = [pc EXCEPT ![t] = "dead"]
                 /\ poisoned' = TRUE
            ELSE /\ th' = [th EXCEPT ![t] = [loc EXCEPT !.res = Err("signature::Error")]]
                 /\ pc' = [pc EXCEPT ![t] = "ret"]
                 /\ UNCHANGED poisoned
    /\ holder' = NoThread
    /\ borrowed' = FALSE
    /\ UNCHANGED <<codecVars, spki, dlen, resolved>>

\* write_cert is called: line 56.
WriteCertBegin(t, cert) ==
    /\ CanCall(t)
    /\ th' = [th EXCEPT ![t] = [Local EXCEPT !.op = "write_cert", !.cert = cert]]
    /\ pc' = [pc EXCEPT ![t] = "wc_lock"]
    /\ UNCHANGED <<codecVars, spki, dlen, holder, poisoned, borrowed, resolved>>

\* self.inner.lock() and borrow_mut() in write_cert: lines 57-62.
WriteCertLock(t) ==
    /\ pc[t] = "wc_lock"
    /\ lock_acquirable(holder)
    /\ IF poisoned
       THEN /\ Return(t, Err("GenericError"))
            /\ UNCHANGED <<holder, borrowed>>
       ELSE IF borrowed
       THEN /\ pc' = [pc EXCEPT ![t] = "dead"]
            /\ th' = [th EXCEPT ![t].res = Panic]
            /\ UNCHANGED <<holder, borrowed>>
       ELSE /\ holder' = guard_owner(t)
            /\ borrowed' = TRUE
            /\ pc' = [pc EXCEPT ![t] = "wc_write"]
            /\ UNCHANGED th
    /\ poisoned' = (poisoned \/ borrowed)
    /\ UNCHANGED <<codecVars, spki, dlen, resolved>>

\* certificate::write under the lock, and the return of write_cert that
\* drops the borrow and the guard: lines 63-69.
WriteCertWrite(t) ==
    /\ pc[t] = "wc_write"
    /\ LET w == write(objects, SignerSlot, "Uncompressed", th[t].cert)
           rec == [NoOp EXCEPT !.op = "write", !.slot = SignerSlot,
                               !.cert = th[t].cert, !.res = w.res, !.pub = w.res]
       IN  /\ objects' = w.objs
           /\ saved' = w.call
           /\ last' = rec
           /\ lastWrite' = IF w.call.called THEN [lastWrite EXCEPT ![SignerSlot] = rec]
                           ELSE lastWrite
           /\ Return(t, w.res)
    /\ holder' = NoThread
    /\ borrowed' = FALSE
    /\ UNCHANGED <<spki, dlen, poisoned, resolved>>

\* signature_algorithm_identifier: lines 108-113.
SigAlgId(t) ==
    /\ CanCall(t)
    /\ th' = [th EXCEPT ![t] = [Local EXCEPT !.op = "sig_alg",
                                   !.oid = signature_algorithm_identifier(spki)]]
    /\ pc' = [pc EXCEPT ![t] = "ret"]
    /\ UNCHANGED <<codecVars, spki, dlen, holder, poisoned, borrowed, resolved>>

DoTrySignBegin == \E t \in Threads : TrySignBegin(t) /\ UNCHANGED issuerVars
DoTrySignLock == \E t \in Threads : TrySignLock(t) /\ UNCHANGED issuerVars
DoTrySignData == \E t \in Threads : TrySignData(t) /\ UNCHANGED issuerVars
DoWriteCertBegin == \E t \in Threads, cert \in SignerCerts : WriteCertBegin(t, cert) /\ UNCHANGED issuerVars
DoWriteCertLock == \E t \in Threads : WriteCertLock(t) /\ UNCHANGED issuerVars
DoWriteCertWrite == \E t \in Threads : WriteCertWrite(t) /\ UNCHANGED issuerVars
DoSigAlgId == \E t \in Threads : SigAlgId(t) /\ UNCHANGED issuerVars

NextSigner ==
    \/ DoTrySignBegin \/ DoTrySignLock \/ DoTrySignData
    \/ DoWriteCertBegin \/ DoWriteCertLock \/ DoWriteCertWrite
    \/ DoSigAlgId

SpecSigner == InitSigner /\ [][NextSigner]_vars

(***************************************************************************)
(* generate_self_signed, called by the thread that owns the signing key.   *)
(***************************************************************************)
\* Lines 131-158: the clock is read twice, now1 = clock and now2 after it.
GenBegin(serial, opt_not_after, subject, now2) ==
    /\ gen.pc = "idle"
    /\ CanCall(IssuerThread)
    /\ LET p == gen_prepare(spki, serial, opt_not_after, subject, clock, now2)
       IN  gen' = [NoGen EXCEPT !.pc = IF p.kind = "Panic" THEN "done" ELSE "build",
                                !.serial = serial, !.opt_not_after = opt_not_after,
                                !.subject = subject, !.now1 = clock, !.now2 = now2,
                                !.tbs = p.tbs,
                                !.res = IF p.kind = "Panic" THEN Panic ELSE Ok(<<>>)]
    /\ clock' = now2
    /\ UNCHANGED <<codecVars, signerVars, resolved>>

\* builder.build(), line 160: the builder calls try_sign once; it may refuse
\* a validity that ends before it begins without signing.
GenBuild ==
    /\ gen.pc = "build"
    /\ \/ /\ gen.tbs.validity.not_after.secs < gen.tbs.validity.not_before.secs
          /\ gen' = [gen EXCEPT !.pc = "done", !.res = Err("InvalidObject")]
          /\ UNCHANGED <<codecVars, signerVars, resolved, clock>>
       \/ /\ TrySignBegin(IssuerThread)
          /\ gen' = [gen EXCEPT !.pc = "sign"]
          /\ UNCHANGED clock

\* try_sign has returned or panicked inside builder.build(): lines 160-163.
GenEnd ==
    /\ gen.pc = "sign"
    /\ pc[IssuerThread] \in {"ret", "dead"}
    /\ LET r == gen_result(gen.tbs, th[IssuerThread].res)
       IN  gen' = [gen EXCEPT !.pc = "done", !.res = r.res, !.cert = r.cert]
    /\ UNCHANGED <<codecVars, signerVars, resolved, clock>>

DoGenBegin ==
    \E serial \in Serials, subject \in Subjects, now2 \in Advance(clock) :
        \E opt_not_after \in NotAfters(clock) :
            GenBegin(serial, opt_not_after, subject, now2)

NextIssuer == DoGenBegin \/ GenBuild \/ DoTrySignLock \/ DoTrySignData \/ GenEnd

SpecIssuer == InitIssuer /\ [][NextIssuer]_vars

(***************************************************************************)
(* The algorithm resolver applied to a descriptor.                         *)
(***************************************************************************)
Resolve ==
    /\ ~resolved.done
    /\ resolved' = [done |-> TRUE, alg |-> get_alg_id(spki),
                    sig |-> get_sig_alg_from_spki(spki)]
    /\ UNCHANGED <<codecVars, signerVars, issuerVars>>

NextResolver == Resolve

SpecResolver == InitResolver /\ [][NextResolver]_vars

(***************************************************************************)
(* Properties of the card object codec.                                    *)
(***************************************************************************)
\* Length of the stored object of a certificate of n bytes: the certificate
\* record (tag, length field, n bytes), the compression record (3 bytes) and
\* the trailer record (2 bytes).
EncodedLen(n) == n + 5 + (IF n < 128 THEN 2 ELSE IF n < 256 THEN 3 ELSE 4)

\* b begins with one complete record tagged 0x70.
IsTlvCert(b) ==
    /\ Len(b) >= 2
    /\ b[1] = 112
    /\ \/ b[2] < 128 /\ Len(b) >= 2 + b[2]
       \/ b[2] = 129 /\ Len(b) >= 3 /\ Len(b) >= 3 + b[3]
       \/ b[2] = 130 /\ Len(b) >= 4 /\ Len(b) >= 4 + b[3] * 256 + b[4]

\* d is 0x70 LEN cert, 0x71 0x01 ci, 0xFE 0x00 with ci the byte of certinfo.
HasObjectForm(d, cert, ci) ==
    LET n == Len(d)
        c == Len(cert)
        h == n - 5 - c         \* tag and length field of the first record
    IN  /\ n <= CB_OBJ_MAX
        /\ h \in 2..4
        /\ d[1] = 112
        /\ \/ h = 2 /\ d[2] = c /\ c < 128
           \/ h = 3 /\ d[2] = 129 /\ d[3] = c
           \/ h = 4 /\ d[2] = 130 /\ d[3] * 256 + d[4] = c
        /\ SubSeq(d, h + 1, h + c) = cert
        /\ d[n - 4] = 113 /\ d[n - 3] = 1 /\ d[n - 2] = ci
        /\ d[n - 1] = 254 /\ d[n] = 0

\* C1 (round trip): a read of a slot whose most recent write stored the
\* certificate C with CertInfo Uncompressed returns exactly C.
C1_RoundTrip ==
    (/\ last.op = "read"
     /\ lastWrite[last.slot].op = "write"
     /\ lastWrite[last.slot].res.kind = "Ok"
     /\ lastWrite[last.slot].certinfo = "Uncompressed")
    => last.res = Ok(lastWrite[last.slot].cert)

\* A read has returned the longest storable certificate after its write.
C1_Witness ==
    /\ last.op = "read"
    /\ lastWrite[last.slot].op = "write"
    /\ lastWrite[last.slot].res.kind = "Ok"
    /\ lastWrite[last.slot].certinfo = "Uncompressed"
    /\ Len(lastWrite[last.slot].cert) = CB_OBJ_MAX - 9
    /\ last.res = Ok(lastWrite[last.slot].cert)

\* C2 (capacity boundary): a write of present bytes fails with BufferTooSmall
\* exactly when the full encoding is longer than CB_OBJ_MAX; then save_object
\* is not called and the stored objects are unchanged; a write whose encoding
\* is exactly CB_OBJ_MAX long succeeds and the slot holds that encoding.
C2_CapacityBoundary ==
    [][last'.op = "write" =>
        LET n == Len(last'.cert)
            s == last'.slot
        IN  /\ (last'.res = Err("BufferTooSmall")) <=> (EncodedLen(n) > CB_OBJ_MAX)
            /\ EncodedLen(n) > CB_OBJ_MAX =>
                    /\ ~saved'.called
                    /\ objects' = objects
            /\ EncodedLen(n) <= CB_OBJ_MAX => last'.res.kind = "Ok"
            /\ EncodedLen(n) = CB_OBJ_MAX =>
                    /\ saved'.called
                    /\ objects'[s].present
                    /\ objects'[s].data = saved'.data
                    /\ Len(objects'[s].data) = CB_OBJ_MAX
                    /\ HasObjectForm(objects'[s].data, last'.cert,
                                     IF last'.certinfo = "Gzip" THEN 1 ELSE 0)
    ]_vars

\* A write has just failed for lack of room, on a slot that still holds the
\* object of an earlier write whose encoding was exactly CB_OBJ_MAX long.
C2_Witness ==
    /\ last.op = "write"
    /\ last.res = Err("BufferTooSmall")
    /\ EncodedLen(Len(last.cert)) = CB_OBJ_MAX + 1
    /\ lastWrite[last.slot].op = "write"
    /\ EncodedLen(Len(lastWrite[last.slot].cert)) = CB_OBJ_MAX
    /\ Len(objects[last.slot].data) = CB_OBJ_MAX

\* C3 (deletion): after a delete the slot holds a zero-length object, and a
\* read of the slot returns an empty result.
C3_DeleteThenReadEmpty ==
    /\ \A s \in Slots : lastWrite[s].op = "delete" => objects[s] = Stored(<<>>)
    /\ (last.op = "read" /\ lastWrite[last.slot].op = "delete")
            => last.res = Ok(<<>>)

\* C4 as stated (absence is empty): read_certificate on a slot whose fetch
\* fails, or whose stored bytes are not a valid TLV-tagged certificate, returns
\* an empty result and no error.
C4_AbsenceIsEmpty ==
    (last.op = "read" /\ (last.fetch.kind = "Err" \/ ~IsTlvCert(last.fetch.val)))
    => last.res = Ok(<<>>)

\* C4 as amended: read_certificate returns an empty result and no error when
\* the fetch fails or when the stored bytes begin with the tag 0x70 and are
\* not one complete record; stored bytes that are not empty and do not begin
\* with 0x70 are returned unchanged; certificate::read reports an empty
\* result of read_certificate as InvalidObject.
C4_AbsenceIsEmptyAmended ==
    last.op = "read" =>
        LET b == last.fetch.val
        IN  /\ last.fetch.kind = "Err" => last.res = Ok(<<>>)
            /\ (last.fetch.kind = "Ok" /\ b # <<>> /\ b[1] = 112 /\ ~IsTlvCert(b))
                    => last.res = Ok(<<>>)
            /\ (last.fetch.kind = "Ok" /\ b # <<>> /\ b[1] # 112)
                    => last.res = Ok(b)
            /\ last.res = Ok(<<>>) => last.pub = Err("InvalidObject")

\* A read has met a damaged record tagged 0x70 and returned an empty result.
C4_Witness ==
    /\ last.op = "read"
    /\ last.fetch.kind = "Ok"
    /\ last.fetch.val # <<>>
    /\ last.fetch.val[1] = 112
    /\ ~IsTlvCert(last.fetch.val)
    /\ last.res = Ok(<<>>)
    /\ last.pub = Err("InvalidObject")

\* C5 (stored-object invariant): every object passed to save_object is either
\* zero-length, passed by a delete, or 0x70 LEN cert 0x71 0x01 ci 0xFE 0x00
\* with cert and ci the certificate and CertInfo byte of the write, ci in
\* {0, 1}, and not longer than CB_OBJ_MAX.
C5_StoredObjectForm ==
    saved.called =>
        \/ last.op = "delete" /\ saved.data = <<>>
        \/ /\ last.op = "write"
           /\ \E ci \in {0, 1} :
                /\ ci = 1 <=> last.certinfo = "Gzip"
                /\ HasObjectForm(saved.data, last.cert, ci)

\* save_object has been handed a gzip-marked object of exactly CB_OBJ_MAX bytes.
C5_Witness ==
    /\ saved.called
    /\ last.op = "write"
    /\ last.certinfo = "Gzip"
    /\ Len(saved.data) = CB_OBJ_MAX
    /\ HasObjectForm(saved.data, last.cert, 1)

(***************************************************************************)
(* Properties of the signing key.                                          *)
(***************************************************************************)
\* Thread t is inside an operation on the hardware handle: the sign_data
\* call of try_sign, or the transaction and save of write_cert.
InHardware(t) == pc[t] \in {"ts_sign", "wc_write"}

\* C6 (mutual exclusion): a thread is inside an operation on the hardware
\* handle only while it holds the lock, and no two threads are inside such
\* operations at once.
C6_MutualExclusion ==
    /\ \A t \in Threads : InHardware(t) => holder = t /\ borrowed
    /\ \A t1, t2 \in Threads : (InHardware(t1) /\ InHardware(t2)) => t1 = t2

\* One thread is inside sign_data while another waits for the lock in
\* write_cert.
C6_Witness ==
    \E t1, t2 \in Threads :
        /\ t1 # t2
        /\ pc[t1] = "ts_sign"
        /\ holder = t1
        /\ pc[t2] = "wc_lock"

\* C7 (hardware failure surfaced, never retried): when sign_data returns an
\* error, try_sign returns a signing error to its caller, on the RSA path and
\* on the EC path, and sign_data is invoked at most once per try_sign call.
C7_HardwareFailureSurfaced ==
    \A t \in Threads :
        th[t].op = "try_sign" =>
            /\ th[t].nsign <= 1
            /\ (th[t].nsign = 1 /\ th[t].hw.kind = "Err")
                    => pc[t] = "ret" /\ th[t].res = Err("signature::Error")

\* The block PKCS#1 v1.5 prescribes for the DigestInfo t and the length emLen.
ExpectedBlock(emLen, t) ==
    LET tlen == Len(t)
    IN  [i \in 1..emLen |->
            IF i = 1 THEN 0
            ELSE IF i = 2 THEN 1
            ELSE IF i < emLen - tlen THEN 255
            ELSE IF i = emLen - tlen THEN 0
            ELSE t[i - (emLen - tlen)]]

OnRsaPath(t) == th[t].op = "try_sign" /\ th[t].path = "rsa" /\ spki.key.rsa

\* Whenever sign_data is invoked on the RSA path, the block handed to it is
\* exactly emLen bytes: 0x00 0x01, emLen - tlen - 3 bytes 0xFF, 0x00, T.
PaddingExactWhenSigned ==
    \A t \in Threads :
        (OnRsaPath(t) /\ th[t].nsign = 1) =>
            LET T == DigestInfo_to_der(Digest(t, dlen))
            IN  /\ spki.key.modLen - Len(T) - 3 >= 0
                /\ Len(th[t].handed) = spki.key.modLen
                /\ th[t].handed = ExpectedBlock(spki.key.modLen, T)

\* C8 (PKCS#1 padding exactness): on the RSA path the block handed to
\* sign_data is exactly emLen bytes, 0x00 0x01, emLen - tlen - 3 bytes 0xFF,
\* 0x00, T; when emLen - tlen - 3 would be negative, try_sign fails with an
\* error and builds no block.
C8_PaddingExact ==
    \A t \in Threads :
        OnRsaPath(t) =>
            LET emLen == spki.key.modLen
                T == DigestInfo_to_der(Digest(t, dlen))
            IN  /\ (emLen - Len(T) - 3 >= 0 /\ th[t].nsign = 1)
                        => th[t].handed = ExpectedBlock(emLen, T)
                /\ emLen - Len(T) - 3 < 0
                        => /\ pc[t] = "ret"
                           /\ th[t].res.kind = "Err"
                           /\ th[t].pre = <<>>
                           /\ th[t].nsign = 0

\* C10 (unsupported key algorithms rejected everywhere): for a descriptor
\* whose algorithm OID is neither RSA nor EC public key the resolver yields
\* no algorithm, signature_algorithm_identifier yields no identifier, and
\* try_sign never invokes sign_data.
C10_UnsupportedRejected ==
    spki.oid \notin {"rsaEncryption", "id-ecPublicKey"} =>
        \A t \in Threads :
            /\ th[t].op = "try_sign" =>
                    /\ th[t].alg = ""
                    /\ th[t].nsign = 0
                    /\ pc[t] \notin {"ts_lock", "ts_sign"}
            /\ th[t].op = "sig_alg" => th[t].oid = ""

ErrorKinds == {"InvalidObject", "AlgorithmError", "BufferTooSmall",
               "HardwareError", "GenericError"}

\* The call got past the aborts the crate reserves for a malformed serial
\* number, subject or time, and the key is one the resolver supports.
WellFormedCall == gen.tbs # NoCert /\ get_alg_id(spki).kind = "Ok"

\* C11: certificate generation is all-or-nothing.  A finished call of
\* generate_self_signed has either returned a signed certificate that
\* carries the signature sign_data produced in its one invocation, or it
\* has returned an error of a declared kind and no certificate; a failure of
\* the builder, a failure of try_sign included, is InvalidObject.  Stated
\* for well-formed calls with a supported key.
C11_AllOrNothing ==
    (gen.pc = "done" /\ WellFormedCall) =>
        \/ /\ gen.res.kind = "Ok"
           /\ gen.cert.signed
           /\ th[IssuerThread].nsign = 1
           /\ th[IssuerThread].hw.kind = "Ok"
           /\ gen.cert.signature = th[IssuerThread].hw.val
           /\ gen.cert = [gen.tbs EXCEPT !.signed = TRUE,
                                         !.signature = th[IssuerThread].hw.val]
        \/ /\ gen.res.kind = "Err"
           /\ gen.res.err \in ErrorKinds
           /\ gen.cert = NoCert
           /\ gen.res.err = "InvalidObject"

\* C12: the validity window.  Once generate_self_signed has built the
\* validity, notBefore is the second reading of the clock in whole seconds;
\* notAfter is the caller's value unchanged when one is supplied, and
\* otherwise the first reading of the clock in whole seconds plus
\* 315,360,000 s, so that the window is 315,360,000 s less the seconds the
\* clock moved between the two readings.  A returned certificate carries
\* that validity.
C12_ValidityWindow ==
    (gen.tbs # NoCert) =>
        LET v == gen.tbs.validity
        IN  /\ v.not_before = Time("UtcTime", gen.now2.secs)
            /\ gen.opt_not_after.some => v.not_after = gen.opt_not_after.val
            /\ ~gen.opt_not_after.some =>
                /\ v.not_after = Time("UtcTime", gen.now1.secs + 315360000)
                /\ v.not_after.secs - v.not_before.secs
                       = 315360000 - (gen.now2.secs - gen.now1.secs)
            /\ (gen.pc = "done" /\ gen.res.kind = "Ok") => gen.cert.validity = v

\* A certificate was returned for a call without notAfter during which the
\* clock advanced by a second between the two readings.
C12_Witness ==
    /\ gen.pc = "done"
    /\ gen.res.kind = "Ok"
    /\ gen.cert.signed
    /\ ~gen.opt_not_after.some
    /\ gen.now1.half = 1
    /\ gen.now2.secs = gen.now1.secs + 1
    /\ gen.cert.validity.not_after.secs - gen.cert.validity.not_before.secs
           = 315360000 - 1

(***************************************************************************)
(* The lock of the hardware handle after completed calls.                  *)
(***************************************************************************)
\* No thread is inside try_sign or write_cert.
AllCompleted == \A t \in Threads : pc[t] \in {"idle", "ret", "dead"}

\* C13: the handle lock is always released and stays usable.  Whenever every
\* call of try_sign and write_cert has completed, whatever its outcome, the
\* Mutex is free and not poisoned and the RefCell is not borrowed; and no
\* call of write_cert returns GenericError, and a call of try_sign returns
\* an error without having invoked sign_data only when the error arose
\* before lock().
C13_LockReleasedUsable ==
    /\ AllCompleted => (holder = NoThread /\ ~borrowed /\ ~poisoned)
    /\ \A t \in Threads :
        /\ (th[t].op = "write_cert" /\ pc[t] = "ret") => th[t].res # Err("GenericError")
        /\ (th[t].op = "try_sign" /\ pc[t] = "ret" /\ th[t].res.kind = "Err"
                /\ th[t].nsign = 0) => try_sign_prepare(spki, t, dlen).kind = "Err"

====
